---- MODULE Spec2Model ----
(***************************************************************************)
(* Model of maps-screenshot-bot.py: the ray-casting boundary test          *)
(* (MapsScreenshotBot.is_within_boundary), the grid generation and the     *)
(* scan loop of MapsScreenshotBot.scan_city with its try/finally.          *)
(*                                                                         *)
(* Coordinates are exact rationals.  A boundary vertex is a pair of        *)
(* integers <<lat, lon>>; a point is a pair of integer numerators          *)
(* <<xn, yn>> over a common positive denominator D, so the point is        *)
(* (xn/D, yn/D).  As in the source, x is the first component (latitude)    *)
(* and y the second (longitude).  The source computes in binary floating   *)
(* point; the model computes the same expressions exactly.                 *)
(*                                                                         *)
(* calculate_grid_step (lines 68-79) is called at line 110, cannot raise,  *)
(* and its result is not used by scan_city; it has no state in the model.  *)
(***************************************************************************)
EXTENDS Integers, Sequences, FiniteSets, TLC

\* ------------------------------------------------------------- bounds
\* A boundary has 3..MaxVerts vertices.
MaxVerts == 4
\* Points handed to the boundary test are multiples of 1/PointDen.
PointDen == 2
\* scan_city is called with grid_size in 1..MaxGrid.
MaxGrid == 2

\* ------------------------------------------------------------- arithmetic
Min2(a, b) == IF a <= b THEN a ELSE b
Max2(a, b) == IF a >= b THEN a ELSE b

RECURSIVE Pow2(_)
Pow2(k) == IF k <= 0 THEN 1 ELSE 2 * Pow2(k - 1)

\* ------------------------------------------------------------- boundary test
\* The local state of point_in_polygon between two iterations of its loop.
\*   inside   the flag
\*   xinters  <<>> while the local is unbound, else <<num, den>> with den > 0
\*            (or den = 0 when the division was by zero)
\*   xedge    the iteration that last assigned xinters (-1: none)
\*   read     line 60 has compared x with xinters
\*   stale    xinters was read in an iteration that did not assign it
\*   divzero  the division of line 59 ran with p1y = p2y (ZeroDivisionError)
\*   unbound  xinters was read while unbound (UnboundLocalError)
PipStart ==
  [inside |-> FALSE, xinters |-> <<>>, xedge |-> -1, read |-> FALSE,
   stale |-> FALSE, divzero |-> FALSE, unbound |-> FALSE]

\* Lines 55-57 with the comparisons of a slightly different ray rule.
CandidateClosed(pt, D, p1, p2) ==
  /\ pt[2] >= D * Min2(p1[2], p2[2])
  /\ pt[2] <= D * Max2(p1[2], p2[2])
  /\ pt[1] <= D * Max2(p1[1], p2[1])

\* Lines 55-57: y > min(p1y, p2y), y <= max(p1y, p2y), x <= max(p1x, p2x).
Candidate(pt, D, p1, p2) ==
  /\ pt[2] > D * Min2(p1[2], p2[2])
  /\ pt[2] <= D * Max2(p1[2], p2[2])
  /\ pt[1] <= D * Max2(p1[1], p2[1])

\* Line 59: (y - p1y) * (p2x - p1x) / (p2y - p1y) + p1x as a fraction whose
\* denominator is made positive; a zero denominator is the division by zero.
Xinters(pt, D, p1, p2) ==
  LET num == (pt[2] - D * p1[2]) * (p2[1] - p1[1]) + p1[1] * D * (p2[2] - p1[2])
      den == D * (p2[2] - p1[2])
  IN  IF den < 0 THEN <<-num, -den>> ELSE <<num, den>>

\* Line 60, second operand: x <= xinters, with x = xn/D and xinters = num/den.
LeqXinters(pt, D, xi) == pt[1] * xi[2] <= xi[1] * D

\* Line 61 replaced by "inside = True".
ToggleSet(b) == TRUE

\* Line 61: inside = not inside.
Toggle(b) == ~b

\* Lines 55-61: the body of the loop for the edge (p1, p2) in iteration i.
EdgeStep(r, pt, D, p1, p2, i) ==
  IF r.divzero \/ r.unbound THEN r
  ELSE IF ~Candidate(pt, D, p1, p2) THEN r
  ELSE
    LET assigned == p1[2] # p2[2]                       \* line 58
        xi == Xinters(pt, D, p1, p2)                    \* line 59
        r1 == IF assigned
              THEN [r EXCEPT !.xinters = xi, !.xedge = i, !.divzero = (xi[2] = 0)]
              ELSE r
    IN  IF r1.divzero THEN r1
        ELSE IF p1[1] = p2[1]                           \* line 60, first operand
             THEN [r1 EXCEPT !.inside = Toggle(r1.inside)]
        ELSE IF r1.xinters = <<>>
             THEN [r1 EXCEPT !.unbound = TRUE]
        ELSE LET r2 == [r1 EXCEPT !.read = TRUE,
                                  !.stale = r1.stale \/ (r1.xedge # i)]
             IN  IF LeqXinters(pt, D, r2.xinters)
                 THEN [r2 EXCEPT !.inside = Toggle(r2.inside)]
                 ELSE r2

\* Lines 52-62: iterations i..last of the loop, p1 being the previous vertex.
RECURSIVE PipLoop(_, _, _, _, _, _, _)
PipLoop(r, pt, D, polygon, p1, i, last) ==
  IF i > last THEN r
  ELSE LET p2 == polygon[(i % Len(polygon)) + 1]
       IN  PipLoop(EdgeStep(r, pt, D, p1, p2, i), pt, D, polygon, p2, i + 1, last)

\* point_in_polygon with "for i in range(n)": the closing edge is not visited.
point_in_polygon_open(pt, D, polygon) ==
  PipLoop(PipStart, pt, D, polygon, polygon[1], 0, Len(polygon) - 1)

\* Lines 47-64: point_in_polygon, i ranging over range(n + 1).
point_in_polygon(pt, D, polygon) ==
  PipLoop(PipStart, pt, D, polygon, polygon[1], 0, Len(polygon))

\* Lines 37-66: is_within_boundary; "raised" when point_in_polygon raises.
is_within_boundary(pt, D, polygon) ==
  LET r == point_in_polygon(pt, D, polygon)
  IN  IF r.divzero \/ r.unbound THEN "raised"
      ELSE IF r.inside THEN "true" ELSE "false"

\* ------------------------------------------------------------- program constants
\* Line 30: zoom_level is clamped to MinZoom..MaxZoom.
MinZoom == 0
MaxZoom == 21
\* Line 113: the zoom level at which actual_grid_size equals grid_size.
BaseZoom == 18

\* ------------------------------------------------------------- state
VARIABLES
  boundary_coords,   \* self.boundary_coords
  zoom_level,        \* self.zoom_level (after the clamp of line 30)
  grid_size,         \* the argument of scan_city
  numpy_legacy,      \* the installed numpy truncates a float num (else TypeError)
  current_coords,    \* the argument of a direct call of is_within_boundary
  result,            \* the locals of point_in_polygon in that call
  pc,                \* position in scan_city
  rows,              \* len(lat_steps) = len(lon_steps)
  total_points,      \* total_points
  processed_points,  \* processed_points
  idx,               \* grid points the two nested loops have finished with
  exc,               \* the exception propagating out of the try block
  quits,             \* calls of self.driver.quit
  navs,              \* calls of self.driver.get
  captures,          \* calls of pyautogui.screenshot
  saves,             \* calls of screenshot.save that returned
  reports,           \* progress lines printed
  delays,            \* inter-capture delays taken (line 139)
  evts,              \* what has been done for the current grid point, in order
  waitOutcome,       \* how the load wait of the current grid point ended
  timedOut,          \* some load wait of this scan timed out
  lastReport         \* <<processed, total>> of the last progress line, or <<>>

scanVars ==
  <<zoom_level, grid_size, numpy_legacy, pc, rows, total_points, processed_points,
    idx, exc, quits, navs, captures, saves, reports, delays, evts, waitOutcome,
    timedOut, lastReport>>
vars == <<boundary_coords, current_coords, result, scanVars>>

\* ------------------------------------------------------------- inputs
\* The vertices boundaries are made of: the corners of a square, its centre
\* and the midpoint of one side.  They give edges level with a
\* coordinate axis in both directions, edges of several slopes, collinear
\* triples, and convex, concave and self-crossing vertex lists.
Vertices ==
  {<<0, 0>>, <<0, 2>>, <<2, 0>>, <<2, 2>>, <<1, 1>>, <<2, 1>>}
\* Every list of 3..MaxVerts vertices, repeated vertices included.
Polygons == UNION {[1..n -> Vertices] : n \in 3..MaxVerts}
CoordMax == CHOOSE m \in {v[1] : v \in Vertices} \cup {v[2] : v \in Vertices} :
              \A v \in Vertices : v[1] <= m /\ v[2] <= m
\* Points from one step outside the vertices' bounding box on one side to one
\* step outside it on the other, in steps of 1/PointDen.
TestCoord == (0 - 1)..(PointDen * CoordMax + 1)
TestPoints == TestCoord \X TestCoord

\* Boundaries scanned: the closed square of the specification's scenario, an
\* open triangle, a concave quadrilateral, and a closed convex quadrilateral
\* none of whose edges is axis-parallel.
ScanBoundaries ==
  { <<<<0, 0>>, <<0, 2>>, <<2, 2>>, <<2, 0>>, <<0, 0>>>>,
    <<<<0, 0>>, <<2, 0>>, <<0, 2>>>>,
    <<<<0, 0>>, <<2, 1>>, <<0, 2>>, <<1, 1>>>>,
    <<<<1, 0>>, <<3, 1>>, <<2, 3>>, <<0, 2>>, <<1, 0>>>> }

ZoomArgs == (MinZoom - 1)..(MaxZoom + 1)

\* Line 30: min(21, max(0, zoom_level)).
ClampZoom(z) == Min2(MaxZoom, Max2(MinZoom, z))

\* ------------------------------------------------------------- grid generation
RECURSIVE SeqMin(_, _, _)
SeqMin(poly, c, k) ==
  IF k = Len(poly) THEN poly[k][c] ELSE Min2(poly[k][c], SeqMin(poly, c, k + 1))
RECURSIVE SeqMax(_, _, _)
SeqMax(poly, c, k) ==
  IF k = Len(poly) THEN poly[k][c] ELSE Max2(poly[k][c], SeqMax(poly, c, k + 1))

\* Lines 104-107.
lat_min == SeqMin(boundary_coords, 1, 1)
lat_max == SeqMax(boundary_coords, 1, 1)
lon_min == SeqMin(boundary_coords, 2, 1)
lon_max == SeqMax(boundary_coords, 2, 1)

\* Line 113: grid_size * (2 ** (zoom_level - 18)).  Python's 2 ** k is an int
\* for k >= 0 and a float for k < 0, so the product num/den is a float exactly
\* when the zoom level is below 18.
actual_grid_size ==
  IF zoom_level >= BaseZoom
  THEN [isFloat |-> FALSE, num |-> grid_size * Pow2(zoom_level - BaseZoom), den |-> 1]
  ELSE [isFloat |-> TRUE, num |-> grid_size, den |-> Pow2(BaseZoom - zoom_level)]

\* Lines 115-116: the length of np.linspace(start, stop, num), or -1 when it
\* raises.  An int num is used as it is.  A float num is rejected with a
\* TypeError by numpy >= 1.18 and truncated to an int by older releases.
LinspaceLen(num, legacy) ==
  IF ~num.isFloat THEN num.num
  ELSE IF legacy THEN num.num \div num.den
  ELSE -1

\* The denominator of the grid's coordinates: element i of
\* np.linspace(a, b, n) is a + i * (b - a) / (n - 1), and a itself when n = 1.
GridDen(n) == Max2(n - 1, 1)
LinspaceAt(a, b, n, i) == a * GridDen(n) + i * (b - a)

\* Lines 121-122: the k-th pair (lat, lon) of the nested loops (k from 0).
GridPoint(k) ==
  <<LinspaceAt(lat_min, lat_max, rows, k \div rows),
    LinspaceAt(lon_min, lon_max, rows, k % rows)>>

\* Line 123 for the k-th grid point.
GridTest(k) == is_within_boundary(GridPoint(k), GridDen(rows), boundary_coords)

\* The grid points among the first k that pass the boundary test.
RECURSIVE InCount(_)
InCount(k) ==
  IF k = 0 THEN 0 ELSE InCount(k - 1) + (IF GridTest(k - 1) = "true" THEN 1 ELSE 0)

\* ------------------------------------------------------------- scan_city
Steps == <<"navigate", "wait", "capture", "save", "report", "delay">>

\* An exception raised inside the try block is lost instead of reaching the
\* finally clause: the scan ends without it.
RaiseNoFinally(e) ==
  /\ exc' = e
  /\ pc' = "done"

\* Lines 102, 141: an exception raised inside the try block leaves the block
\* through the finally clause.
Raise(e) ==
  /\ exc' = e
  /\ pc' = "finally"

\* Lines 102-119: bounding box, grid generation, the two counters.
GenerateGrid ==
  /\ pc = "start"
  /\ LET n == LinspaceLen(actual_grid_size, numpy_legacy)
     IN  IF n < 0
         THEN /\ Raise("TypeError")
              /\ UNCHANGED <<rows, total_points, processed_points>>
         ELSE /\ rows' = n
              /\ total_points' = n * n
              /\ processed_points' = 0
              /\ pc' = "loop"
              /\ exc' = exc
  /\ UNCHANGED <<boundary_coords, zoom_level, grid_size, numpy_legacy, current_coords,
                 result, idx, quits, navs, captures, saves, reports, delays, evts,
                 waitOutcome, timedOut, lastReport>>

\* Lines 121-123 with the test of line 123 dropped: every grid point is visited.
LoopNextNoTest ==
  /\ pc = "loop"
  /\ idx < total_points
  /\ pc' = "navigate"
  /\ evts' = <<>>
  /\ waitOutcome' = "none"
  /\ UNCHANGED <<boundary_coords, zoom_level, grid_size, numpy_legacy, current_coords,
                 result, rows, total_points, processed_points, idx, exc, quits, navs,
                 captures, saves, reports, delays, timedOut, lastReport>>

\* Lines 121-123: the loops take the next grid point and test it; a point
\* outside the boundary is passed over.
LoopNext ==
  /\ pc = "loop"
  /\ idx < total_points
  /\ evts' = <<>>
  /\ waitOutcome' = "none"
  /\ LET t == GridTest(idx)
     IN  IF t = "raised" THEN Raise("BoundaryTestError") /\ idx' = idx
         ELSE IF t = "true" THEN pc' = "navigate" /\ idx' = idx /\ exc' = exc
         ELSE pc' = "loop" /\ idx' = idx + 1 /\ exc' = exc
  /\ UNCHANGED <<boundary_coords, zoom_level, grid_size, numpy_legacy, current_coords,
                 result, rows, total_points, processed_points, quits, navs,
                 captures, saves, reports, delays, timedOut, lastReport>>

\* Line 121: the loops are exhausted; the try block ends normally.
LoopEnd ==
  /\ pc = "loop"
  /\ idx = total_points
  /\ pc' = "finally"
  /\ UNCHANGED <<boundary_coords, zoom_level, grid_size, numpy_legacy, current_coords,
                 result, rows, total_points, processed_points, idx, exc, quits, navs,
                 captures, saves, reports, delays, evts, waitOutcome, timedOut, lastReport>>

\* Lines 83-85: navigate_to_position up to the settle delay; driver.get may raise.
Navigate ==
  /\ pc = "navigate"
  /\ navs' = navs + 1
  /\ evts' = Append(evts, "navigate")
  /\ \E ok \in BOOLEAN :
       IF ok THEN pc' = "wait" /\ exc' = exc
       ELSE Raise("NavigationFailure")
  /\ UNCHANGED <<boundary_coords, zoom_level, grid_size, numpy_legacy, current_coords,
                 result, rows, total_points, processed_points, idx, quits,
                 captures, saves, reports, delays, waitOutcome, timedOut, lastReport>>

\* Lines 88-93 with "except TimeoutException:" and no handler for anything
\* else raised: a timeout itself propagates too when nothing catches it.
LoadWaitPropagates ==
  /\ pc = "wait"
  /\ evts' = Append(evts, "wait")
  /\ \E o \in {"loaded", "timeout", "error"} :
       /\ waitOutcome' = o
       /\ timedOut' = (timedOut \/ o = "timeout")
       /\ IF o = "loaded" THEN pc' = "capture" /\ exc' = exc
          ELSE Raise("LoadWaitFailure")
  /\ UNCHANGED <<boundary_coords, zoom_level, grid_size, numpy_legacy, current_coords,
                 result, rows, total_points, processed_points, idx, quits, navs,
                 captures, saves, reports, delays, lastReport>>

\* Lines 88-93: the load wait.  The element is found, or the wait raises
\* TimeoutException, or it raises something else; the bare "except:" catches
\* whatever was raised, prints the warning, and the method returns.
LoadWait ==
  /\ pc = "wait"
  /\ evts' = Append(evts, "wait")
  /\ \E o \in {"loaded", "timeout", "error"} :
       /\ waitOutcome' = o
       /\ timedOut' = (timedOut \/ o = "timeout")
  /\ pc' = "capture"
  /\ UNCHANGED <<boundary_coords, zoom_level, grid_size, numpy_legacy, current_coords,
                 result, rows, total_points, processed_points, idx, exc, quits, navs,
                 captures, saves, reports, delays, lastReport>>

\* Lines 128-130: the screen capture; pyautogui.screenshot may raise.
Capture ==
  /\ pc = "capture"
  /\ captures' = captures + 1
  /\ evts' = Append(evts, "capture")
  /\ \E ok \in BOOLEAN :
       IF ok THEN pc' = "save" /\ exc' = exc
       ELSE Raise("CaptureFailure")
  /\ UNCHANGED <<boundary_coords, zoom_level, grid_size, numpy_legacy, current_coords,
                 result, rows, total_points, processed_points, idx, quits, navs,
                 saves, reports, delays, waitOutcome, timedOut, lastReport>>

\* Line 131: the image is saved; screenshot.save may raise.
Save ==
  /\ pc = "save"
  /\ evts' = Append(evts, "save")
  /\ \E ok \in BOOLEAN :
       IF ok THEN pc' = "report" /\ exc' = exc /\ saves' = saves + 1
       ELSE Raise("IOFailure") /\ saves' = saves
  /\ UNCHANGED <<boundary_coords, zoom_level, grid_size, numpy_legacy, current_coords,
                 result, rows, total_points, processed_points, idx, quits, navs,
                 captures, reports, delays, waitOutcome, timedOut, lastReport>>

\* Lines 134-136: the counter is incremented and the progress line printed.
Report ==
  /\ pc = "report"
  /\ processed_points' = processed_points + 1
  /\ reports' = reports + 1
  /\ lastReport' = <<processed_points + 1, total_points>>
  /\ evts' = Append(evts, "report")
  /\ pc' = "delay"
  /\ UNCHANGED <<boundary_coords, zoom_level, grid_size, numpy_legacy, current_coords,
                 result, rows, total_points, idx, exc, quits, navs, captures, saves,
                 delays, waitOutcome, timedOut>>

\* Line 139: the delay between captures; the loops go on to the next point.
Delay ==
  /\ pc = "delay"
  /\ evts' = Append(evts, "delay")
  /\ delays' = delays + 1
  /\ idx' = idx + 1
  /\ pc' = "loop"
  /\ UNCHANGED <<boundary_coords, zoom_level, grid_size, numpy_legacy, current_coords,
                 result, rows, total_points, processed_points, exc, quits, navs,
                 captures, saves, reports, waitOutcome, timedOut, lastReport>>

\* Lines 141-142: the finally clause releases the browser; scan_city then
\* returns, or the pending exception goes on to the caller.
Finally ==
  /\ pc = "finally"
  /\ quits' = quits + 1
  /\ pc' = "done"
  /\ UNCHANGED <<boundary_coords, zoom_level, grid_size, numpy_legacy, current_coords,
                 result, rows, total_points, processed_points, idx, exc, navs,
                 captures, saves, reports, delays, evts, waitOutcome, timedOut, lastReport>>

\* Lines 13-35 and the call of scan_city: the bot is constructed (the zoom
\* level clamped) and scan_city(grid_size) is about to enter its try block.
Init ==
  /\ boundary_coords \in ScanBoundaries
  /\ zoom_level \in {ClampZoom(z) : z \in ZoomArgs}
  /\ grid_size \in 1..MaxGrid
  /\ numpy_legacy \in BOOLEAN
  /\ current_coords = <<0, 0>>
  /\ result = PipStart
  /\ pc = "start"
  /\ rows = 0
  /\ total_points = 0
  /\ processed_points = 0
  /\ idx = 0
  /\ exc = "none"
  /\ quits = 0
  /\ navs = 0
  /\ captures = 0
  /\ saves = 0
  /\ reports = 0
  /\ delays = 0
  /\ evts = <<>>
  /\ waitOutcome = "none"
  /\ timedOut = FALSE
  /\ lastReport = <<>>

Next ==
  \/ GenerateGrid
  \/ LoopNext
  \/ LoopEnd
  \/ Navigate
  \/ LoadWait
  \/ Capture
  \/ Save
  \/ Report
  \/ Delay
  \/ Finally

Spec == Init /\ [][Next]_vars

\* ------------------------------------------------------------- direct calls
\* A bot whose boundary is any list of Polygons, and a point about to be
\* handed to is_within_boundary.
InitContains ==
  /\ boundary_coords \in Polygons
  /\ current_coords \in TestPoints
  /\ result = PipStart
  /\ zoom_level = BaseZoom
  /\ grid_size = 1
  /\ numpy_legacy = FALSE
  /\ pc = "idle"
  /\ rows = 0
  /\ total_points = 0
  /\ processed_points = 0
  /\ idx = 0
  /\ exc = "none"
  /\ quits = 0
  /\ navs = 0
  /\ captures = 0
  /\ saves = 0
  /\ reports = 0
  /\ delays = 0
  /\ evts = <<>>
  /\ waitOutcome = "none"
  /\ timedOut = FALSE
  /\ lastReport = <<>>

\* Lines 37-66: is_within_boundary(current_coords) runs to its return; result
\* keeps the locals of point_in_polygon at that moment.
IsWithinBoundary ==
  /\ pc = "idle"
  /\ result' = point_in_polygon(current_coords, PointDen, boundary_coords)
  /\ pc' = "returned"
  /\ UNCHANGED <<boundary_coords, current_coords, zoom_level, grid_size, numpy_legacy,
                 rows, total_points, processed_points, idx, exc, quits, navs,
                 captures, saves, reports, delays, evts, waitOutcome, timedOut, lastReport>>

NextContains == IsWithinBoundary

SpecContains == InitContains /\ [][NextContains]_vars

\* ------------------------------------------------------------- geometry of the claims
Range(q) == {q[i] : i \in 1..Len(q)}

\* A boundary vertex in the units of the test points.
Scaled(v) == <<PointDen * v[1], PointDen * v[2]>>

\* The cross product (a - o) x (b - o).
Cross(o, a, b) == (a[1] - o[1]) * (b[2] - o[2]) - (a[2] - o[2]) * (b[1] - o[1])

\* pt lies in the interior of the convex hull of the vertices: no line through
\* pt and a vertex has all the vertices on one closed side of it.
InHullInterior(pt, poly) ==
  LET S == {Scaled(v) : v \in Range(poly)}
  IN  /\ S \ {pt} # {}
      /\ \A v \in S \ {pt} :
           /\ \E a \in S : Cross(pt, v, a) > 0
           /\ \E b \in S : Cross(pt, v, b) < 0

\* pt lies outside the bounding box of the vertices.
OutsideBBox(pt, poly) ==
  \/ pt[1] < PointDen * SeqMin(poly, 1, 1)
  \/ pt[1] > PointDen * SeqMax(poly, 1, 1)
  \/ pt[2] < PointDen * SeqMin(poly, 2, 1)
  \/ pt[2] > PointDen * SeqMax(poly, 2, 1)

\* The vertex list without a repeated closing vertex.
OpenRing(poly) ==
  IF Len(poly) > 3 /\ poly[1] = poly[Len(poly)] THEN SubSeq(poly, 1, Len(poly) - 1)
  ELSE poly

\* The vertices, in order, trace a strictly convex polygon: every other vertex
\* lies strictly on the same side of every edge.
StrictlyConvex(poly) ==
  LET q == OpenRing(poly)
      m == Len(q)
      nxt(i) == (i % m) + 1
  IN  \E s \in {-1, 1} :
        \A i \in 1..m : \A j \in (1..m) \ {i, nxt(i)} :
          s * Cross(q[i], q[nxt(i)], q[j]) > 0

\* pt lies on an edge (or a vertex) of the polygon, the closing edge included.
OnBoundary(pt, poly) ==
  \E i \in 1..Len(poly) :
    LET a == Scaled(poly[i])
        b == Scaled(poly[(i % Len(poly)) + 1])
    IN  /\ Cross(a, b, pt) = 0
        /\ Min2(a[1], b[1]) <= pt[1] /\ pt[1] <= Max2(a[1], b[1])
        /\ Min2(a[2], b[2]) <= pt[2] /\ pt[2] <= Max2(a[2], b[2])

\* p lies on the closed segment from a to b.
OnSegment(p, a, b) ==
  /\ Cross(a, b, p) = 0
  /\ Min2(a[1], b[1]) <= p[1] /\ p[1] <= Max2(a[1], b[1])
  /\ Min2(a[2], b[2]) <= p[2] /\ p[2] <= Max2(a[2], b[2])

\* The closed segments ab and cd have a point in common.
SegmentsMeet(a, b, c, d) ==
  \/ /\ Cross(c, d, a) * Cross(c, d, b) < 0
     /\ Cross(a, b, c) * Cross(a, b, d) < 0
  \/ OnSegment(a, c, d) \/ OnSegment(b, c, d)
  \/ OnSegment(c, a, b) \/ OnSegment(d, a, b)

\* The vertices, in order, trace a simple polygon: they are distinct (a
\* repeated closing vertex aside), consecutive edges meet only in the vertex
\* they share, and other edges do not meet at all.
SimplePolygon(poly) ==
  LET q == OpenRing(poly)
      m == Len(q)
      nxt(i) == (i % m) + 1
  IN  /\ \A i, j \in 1..m : i # j => q[i] # q[j]
      /\ \A i, j \in 1..m :
           i # j =>
             IF nxt(i) = j
             THEN /\ ~OnSegment(q[nxt(j)], q[i], q[j])
                  /\ ~OnSegment(q[i], q[j], q[nxt(j)])
             ELSE IF nxt(j) = i THEN TRUE
             ELSE ~SegmentsMeet(q[i], q[nxt(i)], q[j], q[nxt(j)])

\* The vertex list started k places later.
Rotate(poly, k) == [i \in 1..Len(poly) |-> poly[((i - 1 + k) % Len(poly)) + 1]]

\* The polygon has a horizontal edge (p1.y = p2.y, p1 # p2) level with pt and
\* reaching at least as far right as pt.
LevelWithHorizontalEdge(pt, poly) ==
  \E i \in 1..Len(poly) :
    LET a == poly[i]
        b == poly[(i % Len(poly)) + 1]
    IN  /\ a[2] = b[2] /\ a[1] # b[1]
        /\ pt[2] = PointDen * a[2]
        /\ pt[1] <= PointDen * Max2(a[1], b[1])

Raised(r) == r.divzero \/ r.unbound

\* ------------------------------------------------------------- C7
\* C7 as stated: for every boundary of at least 3 vertices, is_within_boundary
\* returns true for every point strictly inside the convex hull of the
\* vertices and false for every point outside their bounding box.  The
\* statement is read in the way most favourable to it: its first half is
\* asked only of boundaries that trace a simple polygon and of points on none
\* of its edges.
C7_HullInteriorInside ==
  pc = "returned" =>
    /\ (/\ SimplePolygon(boundary_coords)
        /\ ~OnBoundary(current_coords, boundary_coords)
        /\ InHullInterior(current_coords, boundary_coords))
         => (result.inside /\ ~Raised(result))
    /\ OutsideBBox(current_coords, boundary_coords) => (~result.inside /\ ~Raised(result))

\* C7 amended: when the vertices trace, in order, a strictly convex polygon
\* (with or without a repeated closing vertex), is_within_boundary returns
\* true for every point strictly inside it; for every boundary of at least 3
\* vertices it returns false for every point outside the bounding box.
C7_ConvexInteriorInside ==
  pc = "returned" =>
    /\ (StrictlyConvex(boundary_coords) /\ InHullInterior(current_coords, boundary_coords))
         => (result.inside /\ ~Raised(result))
    /\ OutsideBBox(current_coords, boundary_coords) => (~result.inside /\ ~Raised(result))

\* A convex quadrilateral and a point strictly inside it, classified inside.
C7_Witness ==
  /\ pc = "returned"
  /\ Len(boundary_coords) = 4
  /\ boundary_coords[1] # boundary_coords[4]
  /\ StrictlyConvex(boundary_coords)
  /\ InHullInterior(current_coords, boundary_coords)
  /\ result.inside

\* ------------------------------------------------------------- C8
\* C8: for every boundary, every rotation of its vertex list and every point
\* not on an edge or vertex, the rotated list gives the same answer as the
\* original list.
C8_RotationInvariant ==
  (pc = "returned" /\ ~OnBoundary(current_coords, boundary_coords)) =>
    \A k \in 1..(Len(boundary_coords) - 1) :
      LET rot == point_in_polygon(current_coords, PointDen, Rotate(boundary_coords, k))
      IN  /\ rot.inside = result.inside
          /\ Raised(rot) = Raised(result)

\* A closed triangle (repeated closing vertex) and an interior point off its
\* edges: inside for the list as given and for the list started one later.
C8_Witness ==
  /\ pc = "returned"
  /\ Len(boundary_coords) = 4
  /\ boundary_coords[1] = boundary_coords[4]
  /\ StrictlyConvex(boundary_coords)
  /\ ~OnBoundary(current_coords, boundary_coords)
  /\ result.inside
  /\ point_in_polygon(current_coords, PointDen, Rotate(boundary_coords, 1)).inside

\* ------------------------------------------------------------- C10
\* C10: the boundary test never divides by zero, and whenever it compares x
\* with xinters, xinters was assigned in the same iteration (never unbound,
\* never left over from an earlier edge).
C10_NoDivZeroNoStaleIntercept ==
  pc = "returned" => (~result.divzero /\ ~result.unbound /\ ~result.stale)

\* A boundary with a horizontal edge, a point level with that edge and not to
\* the right of it, and a call that did compare x with an intercept.
C10_Witness ==
  /\ pc = "returned"
  /\ LevelWithHorizontalEdge(current_coords, boundary_coords)
  /\ result.read
  /\ result.xedge >= 0

\* ------------------------------------------------------------- C1
\* C1: in every run of scan_city driver.quit is called exactly once: not
\* before the try block is left, and once by the time scan_city is over,
\* whether it returns or an exception propagates.
C1_QuitExactlyOnce ==
  /\ (pc = "done") => quits = 1
  /\ (pc \in {"start", "loop", "navigate", "wait", "capture", "save", "report",
              "delay", "finally"}) => quits = 0

\* The capture raised in mid-scan, after an earlier point had been saved; the
\* browser was released once and the failure is on its way to the caller.
C1_Witness ==
  /\ pc = "done"
  /\ exc = "CaptureFailure"
  /\ saves >= 1
  /\ quits = 1

\* ------------------------------------------------------------- C2
\* C2: a load-wait timeout is not fatal.  The capture for the same point is
\* attempted next, and its save unless the capture failed; and a scan that
\* ends without a failure has navigated to, captured and saved every grid
\* point inside the boundary, timeouts or not.
C2_TimeoutNotFatal ==
  /\ (waitOutcome = "timeout") =>
        /\ pc = "capture" \/ "capture" \in Range(evts)
        /\ (exc = "none" /\ pc \notin {"capture", "save"}) => "save" \in Range(evts)
  /\ (pc = "done" /\ exc = "none") =>
        LET inBoundary == InCount(total_points)
        IN  navs = inBoundary /\ captures = inBoundary /\ saves = inBoundary

\* A load wait timed out at an earlier point, and a later point, whose own
\* load wait succeeded, has been captured and saved.
C2_Witness ==
  /\ timedOut
  /\ waitOutcome = "loaded"
  /\ pc = "delay"
  /\ saves >= 2
  /\ exc = "none"

\* ------------------------------------------------------------- C3
\* C3 as stated: every failure other than the load-wait timeout is fatal: a
\* failed navigation, a non-timeout error during the load wait, a failed
\* capture or a failed save ends the scan, nothing more is captured.
C3_OnlyTimeoutRecovered ==
  /\ (waitOutcome = "error") => (exc # "none" /\ pc \in {"finally", "done"})
  /\ (exc # "none") => pc \in {"finally", "done"}

\* ------------------------------------------------------------- C4
\* C4 as stated: when a scan ends without a fatal failure, its last progress
\* report shows processed equal to total.
C4_LastReportIsTotal ==
  (pc = "done" /\ exc = "none" /\ lastReport # <<>>) => lastReport[1] = lastReport[2]

\* ------------------------------------------------------------- C5
\* C5 as stated: for every zoom level in 0..21 and every grid size >= 1 grid
\* generation succeeds and yields at least one row and one column.
C5_GridAtLeastOne ==
  (pc # "start") => (exc # "TypeError" /\ rows >= 1)

\* ------------------------------------------------------------- C6
\* C6 as stated: for every positive effectiveSize = num/den the grid has
\* effectiveSize rows and columns and total_points = effectiveSize^2.
C6_TotalIsSquare ==
  (pc # "start" /\ actual_grid_size.num > 0) =>
     /\ exc # "TypeError"
     /\ rows * actual_grid_size.den = actual_grid_size.num
     /\ total_points * actual_grid_size.den * actual_grid_size.den
          = actual_grid_size.num * actual_grid_size.num

\* ------------------------------------------------------------- C9
\* 1 when step s has been taken for the grid point the loop is at, else 0.
Did(s) ==
  IF pc \in {"navigate", "wait", "capture", "save", "report", "delay"}
     \/ (pc \in {"finally", "done"} /\ exc # "none")
  THEN (IF s \in Range(evts) THEN 1 ELSE 0)
  ELSE 0

\* What C9 says of a single state: the steps taken for the current point are
\* a prefix of navigate, load wait, capture, save, report, delay, and are taken
\* only for a point that passed the boundary test; processed_points equals
\* the number of reports and of saved captures (one less than the saves
\* between a save and its report), every point the loop is done with and
\* that was not passed over had one navigation, one capture, one save, one
\* report and one delay, and processed_points never exceeds
\* total_points; a scan that ends without failure has reported exactly the
\* in-boundary grid points.
C9_State ==
  /\ Len(evts) <= Len(Steps)
  /\ \A i \in 1..Len(evts) : evts[i] = Steps[i]
  /\ (pc \in {"navigate", "wait", "capture", "save", "report", "delay"})
        => (idx < total_points /\ GridTest(idx) = "true")
  /\ navs = delays + Did("navigate")
  /\ captures = delays + Did("capture")
  /\ saves = delays + (IF pc \in {"report", "delay"} THEN 1 ELSE 0)
  /\ reports = delays + (IF pc = "delay" THEN 1 ELSE 0)
  /\ processed_points = reports
  /\ (pc # "report") => processed_points = saves
  /\ processed_points <= total_points
  /\ (lastReport # <<>>) => lastReport = <<processed_points, total_points>>
  /\ (pc = "done" /\ exc = "none") => reports = InCount(total_points)

\* What C9 says of a single step: a grid point that fails the boundary test
\* is passed over with no navigation, capture, save, report or delay, and the
\* processed count moves only by a report, by exactly 1.
C9_Step ==
  /\ (pc = "loop" /\ idx < total_points /\ GridTest(idx) # "true") =>
        /\ UNCHANGED <<navs, captures, saves, reports, delays, processed_points,
                       lastReport>>
        /\ pc' \in {"loop", "finally"}
  /\ (processed_points' # processed_points) =>
        /\ processed_points' = processed_points + 1
        /\ reports' = reports + 1
        /\ lastReport' = <<processed_points', total_points>>

\* C9: grid points outside the boundary cause no navigation, capture, report
\* or delay; for each point inside, the steps happen once each in the order
\* navigate, load wait, capture, save, report, delay; hence the processed
\* count equals the captures saved so far, grows by 1 per report and never
\* exceeds total.
C9_SkipAndOrder == [](C9_State) /\ [][C9_Step]_vars

\* A point outside the boundary has just been passed over (nothing done for
\* it) after an earlier point inside the boundary went through all six steps.
C9_Witness ==
  /\ pc = "loop"
  /\ idx >= 2
  /\ GridTest(idx - 1) = "false"
  /\ evts = <<>>
  /\ processed_points >= 1
  /\ delays = processed_points

====
